---- MODULE Spec2Model ----
(***************************************************************************)
(* Model of PostgresPool (src/main.rs): a Mutex<Vec<Client>> filled        *)
(* eagerly by new(), popped by get_connection() and pushed by              *)
(* return_connection(), driven by the tasks that main() spawns.            *)
(***************************************************************************)
EXTENDS Integers, Sequences, FiniteSets, TLC

\* Number of tasks main spawns (100 in the source, bounded here).
NumTasks == 3

\* Largest max_connections explored (main passes 5, bounded here).
MaxConn == 2

\* Number of clients opened outside the pool that callers may hand to
\* return_connection (unbounded in the source, bounded here).
MaxForeign == 1

\* Width of usize in the model (64 in the source, bounded here).
UsizeBits == 8

UsizeModulus == 2 ^ UsizeBits

Tasks == 1..NumTasks

NoClient == 0

NoTask == 0

VARIABLES
    max_connections,  \* PostgresPool.max_connections
    overflow_checks,  \* build profile: TRUE = debug (overflow panics), FALSE = release (wraps)
    connections,      \* PostgresPool.connections: the Vec<Client> behind the mutex
    poisoned,         \* poison flag of the mutex
    lock,             \* task holding the MutexGuard, NoTask when free
    opened,           \* sessions opened by tokio_postgres::connect so far
    destroyed,        \* sessions whose Client has been dropped
    drivers,          \* sessions whose spawned connection future is still running
    mainPc,           \* position of main
    joined,           \* number of task handles main has awaited
    pc,               \* position of each spawned task
    held,             \* the Client each task owns, NoClient when none
    index             \* the index get_connection returned to each task

vars == <<max_connections, overflow_checks, connections, poisoned, lock, opened,
          destroyed, drivers, mainPc, joined, pc, held, index>>

poolVars == <<connections, poisoned, lock, opened, destroyed, drivers>>

cfgVars == <<max_connections, overflow_checks>>

----------------------------------------------------------------------------
\* Pure helpers

\* usize subtraction in a build without overflow checks
WrappingSub(a, b) == (a - b + UsizeModulus) % UsizeModulus

\* Vec::push
VecPush(v, c) == Append(v, c)

\* Variant of pop that hands out the oldest element (FIFO) instead of the last
VecPopItem_Front(v) == IF Len(v) = 0 THEN NoClient ELSE v[1]

\* Vec::pop: the element returned (NoClient for None) and the vector left
VecPopItem(v) == IF Len(v) = 0 THEN NoClient ELSE v[Len(v)]

VecPopRest(v) == IF Len(v) = 0 THEN v ELSE SubSeq(v, 1, Len(v) - 1)

\* Variant of the loop bound: `0..=max_connections`
NewIterations_Inclusive(max) == max + 1

\* Variant of the loop bound: `1..max_connections`
NewIterations_FromOne(max) == IF max = 0 THEN 0 ELSE max - 1

\* `for _ in 0..max_connections`: number of iterations of the loop in new
NewIterations(max) == max

\* Variant of get_connection that reads the last element without removing it
GetConnection_NoPop(conns, max, checks) ==
    IF Len(conns) = 0 /\ checks
    THEN [kind |-> "Panic", index |-> 0, client |-> NoClient, rest |-> conns, line |-> 70]
    ELSE LET idx == WrappingSub(Len(conns), 1)
             conn == VecPopItem(conns)
         IN IF conn # NoClient
            THEN [kind |-> "Ok", index |-> idx, client |-> conn, rest |-> conns, line |-> 81]
            ELSE IF Len(conns) < max
                 THEN [kind |-> "Err", index |-> idx, client |-> NoClient, rest |-> conns, line |-> 84]
                 ELSE [kind |-> "Err", index |-> idx, client |-> NoClient, rest |-> conns, line |-> 76]

\* Variant of get_connection that tests the computed index (`index > 0`)
\* instead of the result of pop, so the last idle connection is never lent
GetConnection_IndexTest(conns, max, checks) ==
    IF Len(conns) = 0 /\ checks
    THEN [kind |-> "Panic", index |-> 0, client |-> NoClient, rest |-> conns, line |-> 70]
    ELSE LET idx == WrappingSub(Len(conns), 1)
         IN IF Len(conns) > 1
            THEN [kind |-> "Ok", index |-> idx, client |-> VecPopItem(conns),
                  rest |-> VecPopRest(conns), line |-> 81]
            ELSE [kind |-> "Err", index |-> idx, client |-> NoClient, rest |-> conns, line |-> 84]

\* The critical section of get_connection (lines 68-85) as a function of the
\* vector, the cap and the build profile.
\*   kind "Panic": `connections.len() - 1` overflowed with overflow checks on
\*   kind "Ok":    Some((index, conn)) was popped and is returned
\*   kind "Err":   anyhow!("Max connections reached"), from line 76 or line 84
GetConnection(conns, max, checks) ==
    IF Len(conns) = 0 /\ checks
    THEN [kind |-> "Panic", index |-> 0, client |-> NoClient, rest |-> conns, line |-> 70]
    ELSE LET idx == WrappingSub(Len(conns), 1)
             conn == VecPopItem(conns)
             rest == VecPopRest(conns)
         IN IF conn # NoClient
            THEN [kind |-> "Ok", index |-> idx, client |-> conn, rest |-> rest, line |-> 81]
            ELSE IF Len(rest) < max
                 THEN [kind |-> "Err", index |-> idx, client |-> NoClient, rest |-> rest, line |-> 84]
                 ELSE [kind |-> "Err", index |-> idx, client |-> NoClient, rest |-> rest, line |-> 76]

\* Variant of return_connection that pushes the client twice
ReturnConnection_PushTwice(conns, client) == VecPush(VecPush(conns, client), client)

\* Variant of return_connection that drops the client instead of pushing it
ReturnConnection_Drop(conns, client) == conns

\* The body of return_connection once the lock is held (line 96)
ReturnConnection(conns, client) == VecPush(conns, client)

----------------------------------------------------------------------------
Init ==
    /\ max_connections \in 0..MaxConn
    /\ overflow_checks \in BOOLEAN
    /\ connections = <<>>
    /\ poisoned = FALSE
    /\ lock = NoTask
    /\ opened = 0
    /\ destroyed = {}
    /\ drivers = {}
    /\ mainPc = "new"
    /\ joined = 0
    /\ pc = [t \in Tasks |-> "unspawned"]
    /\ held = [t \in Tasks |-> NoClient]
    /\ index = [t \in Tasks |-> 0]

RuntimeAlive == mainPc \in {"new", "spawn", "join"}

----------------------------------------------------------------------------
\* PostgresPool::new

\* Variant of the loop body that pushes the client without spawning the
\* connection future
NewIter_NoDriver ==
    /\ mainPc = "new"
    /\ opened < NewIterations(max_connections)
    /\ opened' = opened + 1
    /\ connections' = VecPush(connections, opened + 1)
    /\ UNCHANGED <<cfgVars, poisoned, lock, destroyed, drivers, mainPc, joined, pc, held, index>>

\* One iteration of the loop: connect succeeds, the connection future is
\* spawned, the client is pushed under the lock.
NewIter ==
    /\ mainPc = "new"
    /\ opened < NewIterations(max_connections)
    /\ opened' = opened + 1
    /\ drivers' = drivers \cup {opened + 1}
    /\ connections' = VecPush(connections, opened + 1)
    /\ UNCHANGED <<cfgVars, poisoned, lock, destroyed, mainPc, joined, pc, held, index>>

\* connect fails: unwrap panics, new unwinds and drops the vector with
\* every client already pushed; main never gets a pool.
NewConnectFail ==
    /\ mainPc = "new"
    /\ opened < NewIterations(max_connections)
    /\ mainPc' = "panicked"
    /\ destroyed' = destroyed \cup {connections[i] : i \in 1..Len(connections)}
    /\ connections' = <<>>
    /\ drivers' = {}
    /\ UNCHANGED <<cfgVars, poisoned, lock, opened, joined, pc, held, index>>

\* The loop is over: the pool is returned to main.
NewDone ==
    /\ mainPc = "new"
    /\ opened >= NewIterations(max_connections)
    /\ mainPc' = "spawn"
    /\ UNCHANGED <<cfgVars, poolVars, joined, pc, held, index>>

\* The spawned connection future completes (the session ended, with or
\* without an error); the Client stays wherever it is.
DriverExit(s) ==
    /\ RuntimeAlive
    /\ s \in drivers
    /\ drivers' = drivers \ {s}
    /\ UNCHANGED <<cfgVars, connections, poisoned, lock, opened, destroyed,
                   mainPc, joined, pc, held, index>>

----------------------------------------------------------------------------
\* main: the spawn loop and the join loop

Spawn(t) ==
    /\ mainPc = "spawn"
    /\ pc[t] = "unspawned"
    /\ \A u \in Tasks : u < t => pc[u] # "unspawned"
    /\ pc' = [pc EXCEPT ![t] = "start"]
    /\ UNCHANGED <<cfgVars, poolVars, mainPc, joined, held, index>>

SpawnDone ==
    /\ mainPc = "spawn"
    /\ \A u \in Tasks : pc[u] # "unspawned"
    /\ mainPc' = "join"
    /\ UNCHANGED <<cfgVars, poolVars, joined, pc, held, index>>

Finished(t) == pc[t] \in {"done", "panic_lock_get", "panic_overflow", "panic_unwrap", "panic_lock_return"}

Panicked(t) == pc[t] \in {"panic_lock_get", "panic_overflow", "panic_unwrap", "panic_lock_return"}

\* task.await? on a task that ran to completion
JoinOk ==
    /\ mainPc = "join"
    /\ joined < NumTasks
    /\ pc[joined + 1] = "done"
    /\ joined' = joined + 1
    /\ UNCHANGED <<cfgVars, poolVars, mainPc, pc, held, index>>

\* task.await? on a task that panicked: the JoinError is returned by `?`
JoinErr ==
    /\ mainPc = "join"
    /\ joined < NumTasks
    /\ Panicked(joined + 1)
    /\ mainPc' = "returned_err"
    /\ UNCHANGED <<cfgVars, poolVars, joined, pc, held, index>>

MainOk ==
    /\ mainPc = "join"
    /\ joined = NumTasks
    /\ mainPc' = "returned_ok"
    /\ UNCHANGED <<cfgVars, poolVars, joined, pc, held, index>>

----------------------------------------------------------------------------
\* The spawned task: get_connection().await.unwrap(), println, return_connection

\* self.connections.lock().unwrap() in get_connection, mutex not poisoned
GetLock(t) ==
    /\ RuntimeAlive
    /\ pc[t] = "start"
    /\ lock = NoTask
    /\ ~poisoned
    /\ lock' = t
    /\ pc' = [pc EXCEPT ![t] = "get_locked"]
    /\ UNCHANGED <<cfgVars, connections, poisoned, opened, destroyed, drivers,
                   mainPc, joined, held, index>>

\* self.connections.lock().unwrap() in get_connection, mutex poisoned
GetLockPoisoned(t) ==
    /\ RuntimeAlive
    /\ pc[t] = "start"
    /\ lock = NoTask
    /\ poisoned
    /\ pc' = [pc EXCEPT ![t] = "panic_lock_get"]
    /\ UNCHANGED <<cfgVars, poolVars, mainPc, joined, held, index>>

\* Variant of the Ok path that keeps the MutexGuard alive past the return
GetOk_KeepGuard(t) ==
    /\ pc[t] = "get_locked"
    /\ lock = t
    /\ LET r == GetConnection(connections, max_connections, overflow_checks)
       IN /\ r.kind = "Ok"
          /\ connections' = r.rest
          /\ held' = [held EXCEPT ![t] = r.client]
          /\ index' = [index EXCEPT ![t] = r.index]
    /\ pc' = [pc EXCEPT ![t] = "got_ok"]
    /\ UNCHANGED <<cfgVars, poisoned, lock, opened, destroyed, drivers, mainPc, joined>>

\* lines 70-81 with a connection in the vector: Ok((index, client))
GetOk(t) ==
    /\ pc[t] = "get_locked"
    /\ lock = t
    /\ LET r == GetConnection(connections, max_connections, overflow_checks)
       IN /\ r.kind = "Ok"
          /\ connections' = r.rest
          /\ held' = [held EXCEPT ![t] = r.client]
          /\ index' = [index EXCEPT ![t] = r.index]
    /\ lock' = NoTask
    /\ pc' = [pc EXCEPT ![t] = "got_ok"]
    /\ UNCHANGED <<cfgVars, poisoned, opened, destroyed, drivers, mainPc, joined>>

\* Variant of the Err path that leaks the MutexGuard (the lock stays taken)
GetErr_KeepGuard(t) ==
    /\ pc[t] = "get_locked"
    /\ lock = t
    /\ LET r == GetConnection(connections, max_connections, overflow_checks)
       IN /\ r.kind = "Err"
          /\ connections' = r.rest
    /\ pc' = [pc EXCEPT ![t] = "got_err"]
    /\ UNCHANGED <<cfgVars, poisoned, lock, opened, destroyed, drivers, mainPc, joined,
                   held, index>>

\* lines 70-84 with an empty vector, no overflow checks: Err
GetErr(t) ==
    /\ pc[t] = "get_locked"
    /\ lock = t
    /\ LET r == GetConnection(connections, max_connections, overflow_checks)
       IN /\ r.kind = "Err"
          /\ connections' = r.rest
    /\ lock' = NoTask
    /\ pc' = [pc EXCEPT ![t] = "got_err"]
    /\ UNCHANGED <<cfgVars, poisoned, opened, destroyed, drivers, mainPc, joined,
                   held, index>>

\* line 70 with an empty vector, overflow checks on: the subtraction panics
\* while the guard is alive, so unwinding poisons the mutex and releases it.
GetOverflow(t) ==
    /\ pc[t] = "get_locked"
    /\ lock = t
    /\ GetConnection(connections, max_connections, overflow_checks).kind = "Panic"
    /\ poisoned' = TRUE
    /\ lock' = NoTask
    /\ pc' = [pc EXCEPT ![t] = "panic_overflow"]
    /\ UNCHANGED <<cfgVars, connections, opened, destroyed, drivers, mainPc, joined,
                   held, index>>

\* .unwrap() on Ok, then println: the task goes on to return_connection
UnwrapOk(t) ==
    /\ pc[t] = "got_ok"
    /\ pc' = [pc EXCEPT ![t] = "returning"]
    /\ UNCHANGED <<cfgVars, poolVars, mainPc, joined, held, index>>

\* .unwrap() on Err: the task panics
UnwrapErr(t) ==
    /\ pc[t] = "got_err"
    /\ pc' = [pc EXCEPT ![t] = "panic_unwrap"]
    /\ UNCHANGED <<cfgVars, poolVars, mainPc, joined, held, index>>

\* self.connections.lock().unwrap() in return_connection, mutex not poisoned
ReturnLock(t) ==
    /\ pc[t] = "returning"
    /\ lock = NoTask
    /\ ~poisoned
    /\ lock' = t
    /\ pc' = [pc EXCEPT ![t] = "return_locked"]
    /\ UNCHANGED <<cfgVars, connections, poisoned, opened, destroyed, drivers,
                   mainPc, joined, held, index>>

\* self.connections.lock().unwrap() in return_connection, mutex poisoned:
\* the panic unwinds return_connection and drops its `client` argument.
ReturnLockPoisoned(t) ==
    /\ pc[t] = "returning"
    /\ lock = NoTask
    /\ poisoned
    /\ destroyed' = destroyed \cup {held[t]}
    /\ held' = [held EXCEPT ![t] = NoClient]
    /\ pc' = [pc EXCEPT ![t] = "panic_lock_return"]
    /\ UNCHANGED <<cfgVars, connections, poisoned, lock, opened, drivers,
                   mainPc, joined, index>>

\* connections.push(client), guard dropped
ReturnPush(t) ==
    /\ pc[t] = "return_locked"
    /\ lock = t
    /\ connections' = ReturnConnection(connections, held[t])
    /\ held' = [held EXCEPT ![t] = NoClient]
    /\ lock' = NoTask
    /\ pc' = [pc EXCEPT ![t] = "done"]
    /\ UNCHANGED <<cfgVars, poisoned, opened, destroyed, drivers, mainPc, joined, index>>

----------------------------------------------------------------------------
Next ==
    \/ NewIter
    \/ NewConnectFail
    \/ NewDone
    \/ \E s \in 1..MaxConn : DriverExit(s)
    \/ \E t \in Tasks : Spawn(t)
    \/ SpawnDone
    \/ JoinOk
    \/ JoinErr
    \/ MainOk
    \/ \E t \in Tasks : GetLock(t)
    \/ \E t \in Tasks : GetLockPoisoned(t)
    \/ \E t \in Tasks : GetOk(t)
    \/ \E t \in Tasks : GetErr(t)
    \/ \E t \in Tasks : GetOverflow(t)
    \/ \E t \in Tasks : UnwrapOk(t)
    \/ \E t \in Tasks : UnwrapErr(t)
    \/ \E t \in Tasks : ReturnLock(t)
    \/ \E t \in Tasks : ReturnLockPoisoned(t)
    \/ \E t \in Tasks : ReturnPush(t)

Spec == Init /\ [][Next]_vars

----------------------------------------------------------------------------
TypeOK ==
    /\ max_connections \in 0..MaxConn
    /\ overflow_checks \in BOOLEAN
    /\ connections \in Seq(1..(MaxConn + MaxForeign))
    /\ poisoned \in BOOLEAN
    /\ lock \in Tasks \cup {NoTask}
    /\ opened \in 0..MaxConn
    /\ destroyed \subseteq 1..(MaxConn + MaxForeign)
    /\ drivers \subseteq 1..MaxConn
    /\ joined \in 0..NumTasks
    /\ held \in [Tasks -> 0..(MaxConn + MaxForeign)]
    /\ index \in [Tasks -> 0..(UsizeModulus - 1)]

----------------------------------------------------------------------------
\* Derived quantities the claims speak about

\* Tasks that own a Client: the sessions currently lent out
InUse == {t \in Tasks : held[t] # NoClient}

in_use_count == Cardinality(InUse)

IdleLen == Len(connections)

\* Number of positions of the idle store that hold session s
IdleCount(s) == Cardinality({i \in 1..Len(connections) : connections[i] = s})

\* Number of tasks that own session s
HolderCount(s) == Cardinality({t \in Tasks : held[t] = s})

\* No task has started to release a session
NoneReleased == \A t \in Tasks : pc[t] \notin {"return_locked", "done", "panic_lock_return"}

\* The acquirer asked for a session and was turned away
TurnedAway(t) == pc[t] \in {"got_err", "panic_unwrap", "panic_overflow", "panic_lock_get"}

\* The task is not inside a get_connection/return_connection pair
Quiet(t) == pc[t] \in {"unspawned", "start", "done"}

----------------------------------------------------------------------------
\* C1: in every reachable state the number of idle connections plus the
\* number of connections lent out is at most max_connections.
C1_CapacityBound == IdleLen + in_use_count <= max_connections

\* A release has happened while another task still holds a connection and
\* the pool is full again up to the cap.
C1_Witness ==
    /\ \E t \in Tasks : pc[t] = "done"
    /\ in_use_count >= 1
    /\ IdleLen >= 1
    /\ IdleLen + in_use_count = max_connections

\* C2: every opened session is in exactly one place: once in the idle
\* store, owned by exactly one task, or destroyed; nothing else is tracked.
C2_ExclusiveOwnership ==
    /\ \A s \in 1..opened :
          IdleCount(s) + HolderCount(s) + (IF s \in destroyed THEN 1 ELSE 0) = 1
    /\ \A i \in 1..Len(connections) : connections[i] \in 1..opened
    /\ \A t \in Tasks : held[t] # NoClient => held[t] \in 1..opened
    /\ destroyed \subseteq 1..opened

\* Two get_connection calls have both returned Ok and their callers hold
\* their sessions at the same time.
C2_Witness ==
    \E t, u \in Tasks :
        /\ t # u
        /\ pc[t] = "got_ok"
        /\ pc[u] = "got_ok"
        /\ held[t] # NoClient
        /\ held[u] # NoClient

\* C3: a get_connection call that finds the idle store empty because all
\* max_connections connections are lent out returns Err: it does not panic
\* and does not return a connection.
C3_SaturatedReturnsErr ==
    [][\A t \in Tasks :
          (/\ pc[t] = "get_locked"
           /\ max_connections >= 1
           /\ IdleLen = 0
           /\ in_use_count = max_connections
           /\ pc'[t] # pc[t])
          => (pc'[t] = "got_err" /\ held'[t] = NoClient)]_vars

\* C4: a get_connection call that finds at least one idle connection takes
\* the lock, returns Ok with one connection of the idle store in the same
\* critical section, and the idle store loses exactly that connection.
C4_IdleReturnsOk ==
    [][\A t \in Tasks :
          /\ (pc[t] = "start" /\ IdleLen >= 1 /\ pc'[t] # pc[t])
                => pc'[t] = "get_locked"
          /\ (pc[t] = "get_locked" /\ IdleLen >= 1 /\ pc'[t] # pc[t])
                => /\ pc'[t] = "got_ok"
                   /\ held[t] = NoClient
                   /\ held'[t] # NoClient
                   /\ IdleCount(held'[t]) = 1
                   /\ Len(connections') = Len(connections) - 1
                   /\ \A s \in 1..opened :
                         IdleCount(s)' = IF s = held'[t] THEN 0 ELSE IdleCount(s)]_vars

\* A call has returned Ok while another connection stayed idle.
C4_Witness ==
    \E t \in Tasks :
        /\ pc[t] = "got_ok"
        /\ held[t] # NoClient
        /\ IdleLen >= 1
        /\ IdleCount(held[t]) = 0

\* C5: with more acquirers than max_connections and nobody releasing, the
\* acquirers in excess are suspended: none of them is turned away.
C5_ExcessSuspends ==
    (/\ NumTasks > max_connections
     /\ max_connections >= 1
     /\ NoneReleased)
    => \A t \in Tasks : ~TurnedAway(t)

\* C6: a session released while an acquirer is still unserved goes straight
\* to that acquirer: the idle store and in_use_count do not change.
C6_FifoHandoff ==
    [][\A t \in Tasks :
          (/\ pc[t] = "return_locked"
           /\ pc'[t] = "done"
           /\ \E u \in Tasks : TurnedAway(u))
          => /\ Len(connections') = Len(connections)
             /\ in_use_count' = in_use_count
             /\ \E u \in Tasks : TurnedAway(u) /\ held'[u] = held[t]]_vars

\* C7: sessions opened minus sessions destroyed equals the idle count plus
\* the lent-out count, and every tracked session was opened.
C7_SessionConservation ==
    /\ opened - Cardinality(destroyed) = IdleLen + in_use_count
    /\ \A i \in 1..Len(connections) : connections[i] <= opened
    /\ \A t \in Tasks : held[t] <= opened

\* A borrowed session has been destroyed by its borrower while another
\* session is still lent out.
C7_Witness ==
    /\ \E t \in Tasks : pc[t] = "panic_lock_return"
    /\ destroyed # {}
    /\ in_use_count >= 1

\* C8: with max_connections = 1, as long as no get/return pair has
\* overlapped another one every pair succeeds (a task that steps while all
\* other tasks are outside a pair is never turned away and its release does
\* not panic), exactly one session is ever opened, and between two pairs the
\* pool is back in the state it had before: connections = <<1>>.
C8_RoundTrip ==
    /\ []((/\ max_connections = 1
           /\ mainPc \notin {"new", "panicked"}
           /\ \A u \in Tasks : ~Panicked(u) /\ pc[u] # "got_err")
          => /\ opened = 1
             /\ destroyed = {}
             /\ ~poisoned
             /\ ((\A u \in Tasks : Quiet(u) \/ pc[u] = "get_locked")
                   => connections = <<1>> /\ in_use_count = 0)
             /\ \A t \in Tasks :
                   pc[t] \in {"got_ok", "returning", "return_locked"}
                      => connections = <<>> /\ held[t] = 1)
    /\ [][\A t \in Tasks :
            (/\ max_connections = 1
             /\ \A u \in Tasks : ~Panicked(u) /\ pc[u] # "got_err"
             /\ \A u \in Tasks : u # t => Quiet(u))
            => (~Panicked(t) /\ pc[t] # "got_err")']_vars

\* NumTasks pairs have run one after the other on a pool of one connection.
C8_Witness ==
    /\ max_connections = 1
    /\ \A t \in Tasks : pc[t] = "done"
    /\ connections = <<1>>
    /\ opened = 1

\* C9: return_connection never panics.
C9_ReleaseInfallible == \A t \in Tasks : pc[t] # "panic_lock_return"

\* C10: with more acquirers than max_connections, once every acquirer has
\* finished nothing is lent out, nobody holds or waits for the lock, the idle
\* store holds every session that was not destroyed (at most
\* max_connections), and exactly max_connections sessions were opened.
C10_Quiescence ==
    (NumTasks > max_connections /\ \A t \in Tasks : Finished(t))
    => /\ in_use_count = 0
       /\ lock = NoTask
       /\ IdleLen <= max_connections
       /\ IdleLen = opened - Cardinality(destroyed)
       /\ opened = max_connections

\* Every acquirer has finished, at least one after borrowing and returning
\* a session and at least one after being turned away.
C10_Witness ==
    /\ NumTasks > max_connections
    /\ \A t \in Tasks : Finished(t)
    /\ \E t \in Tasks : pc[t] = "done"
    /\ \E t \in Tasks : TurnedAway(t)
    /\ IdleLen >= 1

\* The pool has just been returned to main by new and no task exists yet
JustConstructed == mainPc = "spawn" /\ \A t \in Tasks : pc[t] = "unspawned"

\* C11: constructing the pool opens no session: right after construction
\* the factory has opened nothing and the idle store is empty.
C11_LazyConstruction == JustConstructed => (opened = 0 /\ connections = <<>>)

\* C12: no pool with a cap of zero is ever constructed, so no task ever
\* runs get_connection against one.
C12_ZeroCapRejected ==
    max_connections = 0
    => /\ mainPc \notin {"spawn", "join", "returned_ok", "returned_err"}
       /\ \A t \in Tasks : pc[t] \in {"unspawned", "start"}

C14_OneDriverPerSession ==
    /\ [](drivers \subseteq 1..opened)
    /\ [][/\ (opened' # opened)
                => /\ opened' = opened + 1
                   /\ opened' \notin drivers
                   /\ drivers' = drivers \cup {opened'}
          /\ (opened' = opened) => (drivers' \subseteq drivers)
          /\ (pc' # pc) => (drivers' = drivers)]_vars

\* The only session of a pool of one has been borrowed, returned and
\* borrowed again, and its one driver is still running.
C14_Witness ==
    /\ max_connections = 1
    /\ drivers = {1}
    /\ \E t, u \in Tasks :
          /\ t # u
          /\ pc[u] = "done"
          /\ pc[t] = "got_ok"
          /\ held[t] = 1

\* C16: in the demonstrator (a pool with at least one connection, more tasks
\* than connections) no task's unwrap fails and main does not return Err.
C16_AllTasksSucceed ==
    max_connections >= 1
    => /\ \A t \in Tasks : ~Panicked(t) /\ pc[t] # "got_err"
       /\ mainPc # "returned_err"

\* C17: a successful get_connection returns the last element of the Vec
\* (the connection pushed most recently), leaves the others in place, and
\* its index is the number of idle connections before the call minus one,
\* which is the number left idle and the position the connection had.
C17_LifoAndIndex ==
    [][\A t \in Tasks :
          (pc[t] = "get_locked" /\ pc'[t] = "got_ok")
          => /\ held'[t] = connections[Len(connections)]
             /\ connections' = SubSeq(connections, 1, Len(connections) - 1)
             /\ index'[t] = Len(connections) - 1
             /\ index'[t] = Len(connections')
             /\ connections[index'[t] + 1] = held'[t]]_vars

\* After both sessions were borrowed and returned in the other order, a
\* task has been given the one returned last, with index 1, and the one
\* returned first is still idle.
C17_Witness ==
    \E t \in Tasks :
        /\ pc[t] = "got_ok"
        /\ held[t] = 1
        /\ index[t] = 1
        /\ connections = <<2>>

\* C18: a get_connection call that finds the idle store empty while
\* another task still holds a connection leaves the Vec as it was and the
\* mutex released and not poisoned, so that the holder can return it.
C18_FailedGetHarmless ==
    [][\A t \in Tasks :
          (/\ pc[t] = "get_locked"
           /\ IdleLen = 0
           /\ in_use_count >= 1
           /\ pc'[t] # pc[t])
          => /\ connections' = connections
             /\ lock' = NoTask
             /\ poisoned' = FALSE]_vars

----------------------------------------------------------------------------
\* return_connection as a caller other than main's tasks may use it: the
\* argument is any Client, also one the caller opened itself.

\* Clients opened outside the pool
ForeignClients == (MaxConn + 1)..(MaxConn + MaxForeign)

\* The client is already in the Vec, owned by a task, or dropped
Present(c) ==
    \/ \E i \in 1..Len(connections) : connections[i] = c
    \/ \E t \in Tasks : held[t] = c
    \/ c \in destroyed

\* return_connection(c) with a client that did not come from the pool, the
\* mutex not poisoned: lock, push, unlock
ReturnForeign(c) ==
    /\ mainPc \in {"spawn", "join"}
    /\ lock = NoTask
    /\ ~poisoned
    /\ ~Present(c)
    /\ connections' = ReturnConnection(connections, c)
    /\ UNCHANGED <<cfgVars, poisoned, lock, opened, destroyed, drivers,
                   mainPc, joined, pc, held, index>>

\* The same call on a poisoned mutex: lock().unwrap() panics and the client
\* is dropped
ReturnForeignPoisoned(c) ==
    /\ mainPc \in {"spawn", "join"}
    /\ lock = NoTask
    /\ poisoned
    /\ ~Present(c)
    /\ destroyed' = destroyed \cup {c}
    /\ UNCHANGED <<cfgVars, connections, poisoned, lock, opened, drivers,
                   mainPc, joined, pc, held, index>>

NextApi ==
    \/ Next
    \/ \E c \in ForeignClients : ReturnForeign(c)
    \/ \E c \in ForeignClients : ReturnForeignPoisoned(c)

SpecApi == Init /\ [][NextApi]_vars

\* C19: the idle store of a pool with a positive cap never holds more than
\* max_connections connections, whatever clients are passed to
\* return_connection.
C19_IdleWithinCap == max_connections >= 1 => IdleLen <= max_connections

----------------------------------------------------------------------------
\* Scheduling: the runtime keeps polling main and every spawned task, and a
\* thread that can take the mutex eventually does.

\* Any step of spawned task t
TaskStep(t) ==
    \/ GetLock(t)
    \/ GetLockPoisoned(t)
    \/ GetOk(t)
    \/ GetErr(t)
    \/ GetOverflow(t)
    \/ UnwrapOk(t)
    \/ UnwrapErr(t)
    \/ ReturnLock(t)
    \/ ReturnLockPoisoned(t)
    \/ ReturnPush(t)

\* Any step of main
MainStep ==
    \/ NewIter
    \/ NewConnectFail
    \/ NewDone
    \/ \E t \in Tasks : Spawn(t)
    \/ SpawnDone
    \/ JoinOk
    \/ JoinErr
    \/ MainOk

FairSpec == Spec /\ WF_vars(MainStep) /\ \A t \in Tasks : WF_vars(TaskStep(t))

MainTerminated == mainPc \in {"returned_ok", "returned_err", "panicked"}

InCall(t) == pc[t] \in {"get_locked", "got_ok", "got_err", "returning", "return_locked"}

Settled ==
    /\ MainTerminated
    /\ lock = NoTask
    /\ \A t \in Tasks : ~InCall(t)

====
